---- MODULE Spec2Model ----
(***************************************************************************)
(* Image-Converter: the batch-conversion worker (ConvertWorker, a QThread) *)
(* and the part of ImageConverterApp that starts it, cancels it and        *)
(* receives its progress / status / done signals.                          *)
(*                                                                         *)
(* Time is counted in units of 10 ms, so time.sleep(0.01) is 1 unit,       *)
(* time.sleep(1) is 100 units and MIN_DURATION = 10.0 s is 1000 units.     *)
(***************************************************************************)
EXTENDS Integers, Sequences, FiniteSets, TLC

\* ------------------------------------------------------------------ bounds
\* number of ConvertWorker objects constructed in one behaviour
MaxJobs == 2
\* number of distinct image paths the user can put in the list
NumPaths == 1
\* longest file list of a job that is run on its own
MaxBatch == 2
\* number of worker signals posted to the UI event loop and not yet handled
MaxQueue == 1
\* steps a thread still executes after QThread.terminate() was called on it
MaxLinger == 1
\* pending QTimer.singleShot(2000, _restore_status_updates) timers
MaxRestoreTimers == 2
\* longest file list the percent formulas are evaluated for
MaxTotal == 40

\* ------------------------------------------------------- program constants
\* for i in range(8, 0, -1)
WarmupTicks == 8
\* int(((8 - i) / 8) * 80)
WarmupSpan == 80
\* pct = 80 + int((idx / total) * 19)
ConvBase == 80
ConvSpan == 19
\* if pct > 99: pct = 99
PctCap == 99
\* self.progress.emit(100)
FinalPct == 100
\* self.MIN_DURATION = 10.0
MIN_DURATION == 1000
\* steps = 30
steps == 30
\* time.sleep(1) in the warm-up, time.sleep(0.01) after each file
TickSleep == 100
FileSleep == 1
\* cancel_btn.clicked is connected to on_cancel_clicked twice
CancelConnections == 2

Jobs == 1..MaxJobs
Paths == 1..NumPaths

\* SUPPORTED_FORMATS: the entries with a format; "none" is the
\* ("Select Format", None) entry
SUPPORTED_FORMATS == {"png", "jpg", "webp", "bmp", "tiff", "gif", "ico", "pdf"}
NoFormat == "none"
\* the formats the model lets the user pick in the combo box
UiFormats == {"jpg"}

\* what one call of convert_one does: it returns, or raises
\* UnidentifiedImageError, another OSError, or any other Exception
\* (UnidentifiedImageError is a subclass of OSError and is caught first)
Outcomes == {"ok", "UnidentifiedImageError", "OSError", "Exception"}
\* how long one call of convert_one takes (units of 10 ms)
Durations == {0, 500}

\* dots = ["", ".", "..", "..."]
dots == <<"", ".", "..", "...">>

\* --------------------------------------------------------------- signals
\* One emitted signal.  kind is "progress", "status" or "done"; pct is the
\* argument of progress, text/args the text of status and done (args holds
\* the numbers or file formatted into the text), ok the flag of done.
ProgressEvent(j, p) ==
    [job |-> j, kind |-> "progress", pct |-> p, text |-> "", args |-> <<>>, ok |-> FALSE]
StatusEvent(j, t, a) ==
    [job |-> j, kind |-> "status", pct |-> 0, text |-> t, args |-> a, ok |-> FALSE]
CompletionEvent(j, b, t, a) ==
    [job |-> j, kind |-> "done", pct |-> 0, text |-> t, args |-> a, ok |-> b]

WaitText == "Wait for a moment..."
NoFormatText == "Error: No output format selected."
AllOkText == "All conversions completed successfully."
PartialText == "Conversion finished. Successfully converted {0} of {1} files."
AllFailedText == "Conversion failed for all files. Check file integrity or permissions."
PreparingText == "Your images are preparing"
CancelInvalidText == "Cancel not valid now"
CanceledText == "Conversion canceled."
HeifWarningText == "Warning: HEIC / AVIF support library not found. Install 'pillow-heif'."

\* ------------------------------------------------------- pure computations
\* WarmupPct with a fault seeded: the value at the end of the tick, not at
\* its start
WarmupPct_end_of_tick(i) == ((WarmupTicks - i + 1) * WarmupSpan) \div WarmupTicks

\* int(((8 - i) / 8) * 80)
WarmupPct(i) == ((WarmupTicks - i) * WarmupSpan) \div WarmupTicks

\* ConvPct with a fault seeded: the offset of the conversion phase is left out
ConvPct_without_base(idx, total) ==
    LET pct == (idx * ConvSpan) \div total
    IN  IF pct > PctCap THEN PctCap ELSE pct

\* ConvPct with a fault seeded: the quotient is rounded up instead of truncated
ConvPct_rounded_up(idx, total) ==
    LET pct == ConvBase + ((idx * ConvSpan + total - 1) \div total)
    IN  IF pct > PctCap THEN PctCap ELSE pct

\* pct = 80 + int((idx / total) * 19); if pct > 99: pct = 99
ConvPct(idx, total) ==
    LET pct == ConvBase + ((idx * ConvSpan) \div total)
    IN  IF pct > PctCap THEN PctCap ELSE pct

\* start_pct = final_conversion_pct if final_conversion_pct >= 1 else 1
StartPct(final_conversion_pct) ==
    IF final_conversion_pct >= 1 THEN final_conversion_pct ELSE 1

\* PadPct with a fault seeded: the value is not capped at 99
PadPct_uncapped(start_pct, i) ==
    (start_pct * steps + (FinalPct - start_pct) * i) \div steps

\* pct_increment = (100 - start_pct) / steps
\* new_pct = int(start_pct + pct_increment * i); if new_pct > 99: new_pct = 99
PadPct(start_pct, i) ==
    LET new_pct == (start_pct * steps + (FinalPct - start_pct) * i) \div steps
    IN  IF new_pct > PctCap THEN PctCap ELSE new_pct

\* Handler with a fault seeded: the per-file try has no except Exception clause
Handler_without_catch_all(o) ==
    CASE o = "ok" -> ""
      [] o = "UnidentifiedImageError" -> "UnidentifiedImageError"
      [] o = "OSError" -> "OSError"
      [] OTHER -> "uncaught"

\* Handler with a fault seeded: the except OSError clause comes first and
\* catches UnidentifiedImageError, which is a subclass of OSError
Handler_oserror_first(o) ==
    CASE o = "ok" -> ""
      [] o \in {"UnidentifiedImageError", "OSError"} -> "OSError"
      [] OTHER -> "Exception"

\* the try around convert_one: the except clause that catches outcome o
\* ("" when convert_one returned, "uncaught" when no clause matches)
Handler(o) ==
    CASE o = "ok" -> ""
      [] o = "UnidentifiedImageError" -> "UnidentifiedImageError"
      [] o = "OSError" -> "OSError"
      [] OTHER -> "Exception"

SkippedUnidentifiedText == "Skipped: {0}. Unidentified or corrupted file format."
SkippedOSErrorText == "Skipped: {0}. File read/write error (OSError)."
ErrorConvertingText == "Error converting {0}. See console for details."
CriticalText == "Critical error during batch process. See console."

\* error_msg of the except clause h
ErrorText(h) ==
    CASE h = "UnidentifiedImageError" -> SkippedUnidentifiedText
      [] h = "OSError" -> SkippedOSErrorText
      [] OTHER -> ErrorConvertingText

\* FinalEvent with a fault seeded: the first test is > 0 instead of == total
FinalEvent_any_success(j, successful_conversions, total) ==
    IF successful_conversions > 0
      THEN CompletionEvent(j, TRUE, AllOkText, <<>>)
      ELSE CompletionEvent(j, FALSE, AllFailedText, <<>>)

\* the if / elif / else that picks the done signal at the end of the batch
FinalEvent(j, successful_conversions, total) ==
    IF successful_conversions = total
      THEN CompletionEvent(j, TRUE, AllOkText, <<>>)
      ELSE IF successful_conversions > 0
        THEN CompletionEvent(j, TRUE, PartialText, <<successful_conversions, total>>)
        ELSE CompletionEvent(j, FALSE, AllFailedText, <<>>)

\* ------------------------------------------------------------------ state
VARIABLES
    \* ImageConverterApp
    files,                 \* self.files
    format,                \* self.format_box.currentData()
    worker,                \* self.worker: 0 is None, else the job
    block_status_updates,  \* self.block_status_updates
    ui_enabled,            \* what set_ui_enabled last set
    cancel_shown,          \* cancel_btn is shown (convert_btn is hidden)
    progress_bar,          \* self.progress.value()
    status_label,          \* self.status_label.text()
    restore_timers,        \* pending singleShot(2000, _restore_status_updates)
    reset_timers,          \* pending singleShot(10000, reset_all)
    dialogs,               \* open QMessageBox of on_conversion_done
    slots_left,            \* on_cancel_clicked slots of one click still to run
    \* ConvertWorker objects and their threads; emitted, attempts and outcomes
    \* are the history of a run: the signals it emitted, the files it passed to
    \* convert_one and what each of those calls did
    workers,
    jobs,                  \* number of ConvertWorker objects constructed
    \* the UI thread's event queue: the worker signals posted and not handled
    queue,
    \* the QMessageBox.warning that on_convert has open: "" is none
    warning,
    \* one call of ConvertWorker.convert_one: its arguments, the image that
    \* Image.open returned and the save calls it has made
    call

vars == <<files, format, worker, block_status_updates, ui_enabled, cancel_shown,
          progress_bar, status_label, restore_timers, reset_timers, dialogs,
          slots_left, workers, jobs, queue, warning, call>>

uiVars == <<files, format, worker, block_status_updates, ui_enabled, cancel_shown,
            progress_bar, status_label, restore_timers, reset_timers, dialogs,
            slots_left, jobs, warning, call>>

Label(t, a) == [text |-> t, args |-> a]

\* a ConvertWorker object that was not constructed yet
NoWorker ==
    [files |-> <<>>, out_format |-> NoFormat, thread |-> "none", pc |-> "none",
     i |-> 0, idx |-> 0, total |-> 0, successful_conversions |-> 0,
     final_conversion_pct |-> 0, clock |-> 0, start_time |-> 0,
     dot_index |-> 0, cancel_locked |-> FALSE, linger |-> 0,
     emitted |-> <<>>, attempts |-> <<>>, outcomes |-> <<>>]

\* ConvertWorker.__init__ followed by start(): the thread is running and is
\* at the top of run; _cancel_locked is not an attribute yet, which
\* getattr(self.worker, "_cancel_locked", False) reads as False
NewWorker(fs, fmt) ==
    [files |-> fs, out_format |-> fmt, thread |-> "running", pc |-> "warm_status",
     i |-> WarmupTicks, idx |-> 0, total |-> 0, successful_conversions |-> 0,
     final_conversion_pct |-> 0, clock |-> 0, start_time |-> 0,
     dot_index |-> 0, cancel_locked |-> FALSE, linger |-> 0,
     emitted |-> <<>>, attempts |-> <<>>, outcomes |-> <<>>]

\* WorkerFiles with a fault seeded: __init__ keeps the caller's list itself
\* (self.files = files), so run reads the list of the application
WorkerFiles_shared(w) == files

\* self.files of a worker: __init__ made it a copy, list(files), of the
\* list it was given
WorkerFiles(w) == w.files

\* QThread.isRunning()
isRunning(w) == w.thread \in {"running", "terminating"}

\* the phase of the job state machine a worker is in
Phase(w) ==
    CASE w.pc \in {"warm_status", "warm_progress", "lock"} -> "WarmUp"
      [] w.pc \in {"check_format", "convert", "file_progress", "after_loop"} -> "Converting"
      [] w.pc \in {"pad_status", "pad_progress"} -> "TailPadding"
      [] w.pc = "final" -> "Final"
      [] w.pc = "finish" -> "Final"
      [] w.pc = "returned" -> "Returned"
      [] OTHER -> "Idle"

\* --------------------------------------------------- ConvertWorker.run
\* the thread of worker w is scheduled: it runs, or terminate() was called on
\* it and it has not stopped yet (QThread.terminate() does not wait)
CanStep(w) ==
    \/ w.thread = "running"
    \/ w.thread = "terminating" /\ w.linger < MaxLinger

Lingered(w) ==
    IF w.thread = "terminating" THEN [w EXCEPT !.linger = @ + 1] ELSE w

\* Returned with a fault seeded: run goes on to progress.emit(100) instead of ending
Returned_without_return(w) == [w EXCEPT !.pc = "final"]

\* run() returned: the thread is finished
Returned(w) == [w EXCEPT !.pc = "returned", !.thread = "finished"]

\* Python frees a ConvertWorker object once self.worker no longer refers to
\* it; the model frees it when, in addition, its thread has stopped.  ws are
\* the worker objects and ref is self.worker.
Freed == [NoWorker EXCEPT !.thread = "freed"]
Collect(ws, ref) ==
    [j \in Jobs |-> IF ws[j].thread \in {"finished", "killed"} /\ ref # j
                      THEN Freed ELSE ws[j]]

\* one step of run: the worker object becomes w2 and the signals evs are
\* emitted; the slots live in the UI thread, so each signal is posted to the
\* UI thread's event queue (a queued connection)
Step(j, w2, evs) ==
    /\ Len(queue) + Len(evs) <= MaxQueue
    /\ workers' = Collect([workers EXCEPT
                             ![j] = Lingered([w2 EXCEPT !.emitted = @ \o evs])],
                          worker)
    /\ queue' = queue \o evs

\* self.status.emit("Wait for a moment...")
WarmStatus(j) ==
    LET w == workers[j] IN
    /\ CanStep(w) /\ w.pc = "warm_status"
    /\ Step(j, [w EXCEPT !.pc = "warm_progress"], <<StatusEvent(j, WaitText, <<>>)>>)
    /\ UNCHANGED uiVars

\* self.progress.emit(int(((8 - i) / 8) * 80)); time.sleep(1); next i
WarmProgress(j) ==
    LET w == workers[j] IN
    /\ CanStep(w) /\ w.pc = "warm_progress"
    /\ Step(j, [w EXCEPT !.i = @ - 1,
                         !.clock = @ + TickSleep,
                         !.pc = IF w.i - 1 = 0 THEN "lock" ELSE "warm_status"],
            <<ProgressEvent(j, WarmupPct(w.i))>>)
    /\ UNCHANGED uiVars

\* self._cancel_locked = True
SetCancelLocked(j) ==
    LET w == workers[j] IN
    /\ CanStep(w) /\ w.pc = "lock"
    /\ Step(j, [w EXCEPT !.cancel_locked = TRUE, !.pc = "check_format"], <<>>)
    /\ UNCHANGED uiVars

\* FormatUnset with a fault seeded: the test of out_format is left out
FormatUnset_never(w) == FALSE

\* NoFormatSignals with a fault seeded: run returns without emitting done
NoFormatSignals_none(j) == <<>>

\* if not self.out_format
FormatUnset(w) == w.out_format = NoFormat

\* self.done.emit(False, "Error: No output format selected.")
NoFormatSignals(j) == <<CompletionEvent(j, FALSE, NoFormatText, <<>>)>>

\* if not self.out_format: done.emit(False, ...); return
\* else total, successful_conversions, final_conversion_pct, start_time
CheckFormat(j) ==
    LET w == workers[j] IN
    /\ CanStep(w) /\ w.pc = "check_format"
    /\ IF FormatUnset(w)
         THEN Step(j, Returned(w), NoFormatSignals(j))
         ELSE Step(j, [w EXCEPT !.total = Len(WorkerFiles(w)),
                                !.successful_conversions = 0,
                                !.final_conversion_pct = 0,
                                !.start_time = w.clock,
                                !.idx = 0,
                                !.pc = IF Len(WorkerFiles(w)) = 0
                                         THEN "after_loop" ELSE "convert"],
                   <<>>)
    /\ UNCHANGED uiVars

\* CountAfter with a fault seeded: the counter is incremented after the try
\* statement, whether convert_one raised or not
CountAfter_always(o, n) == n + 1

\* self.convert_one(Path(fpath)); successful_conversions += 1: the increment
\* is skipped when convert_one raises
CountAfter(o, n) == IF o = "ok" THEN n + 1 ELSE n

\* the next file of enumerate(self.files, start=1): convert_one returns after
\* d time units with outcome o; a failure is caught by the matching except
\* clause, which emits the status text of the error; an exception that no
\* clause of the per-file try catches reaches the except Exception around the
\* loop, which emits done(False, "Critical error ...") and ends run
ConvertFile(j) ==
    LET w == workers[j] IN
    /\ CanStep(w) /\ w.pc = "convert"
    /\ w.idx + 1 \in DOMAIN WorkerFiles(w)
    /\ \E o \in Outcomes, d \in Durations :
         LET idx == w.idx + 1
             fpath == WorkerFiles(w)[idx]
             w2 == [w EXCEPT !.idx = idx,
                             !.attempts = Append(@, fpath),
                             !.outcomes = Append(@, o),
                             !.clock = @ + d,
                             !.successful_conversions = CountAfter(o, @),
                             !.pc = "file_progress"]
         IN  CASE Handler(o) = "" -> Step(j, w2, <<>>)
               [] Handler(o) = "uncaught" ->
                    Step(j, Returned(w2), <<CompletionEvent(j, FALSE, CriticalText, <<>>)>>)
               [] OTHER ->
                    Step(j, w2, <<StatusEvent(j, ErrorText(Handler(o)), <<fpath>>)>>)
    /\ UNCHANGED uiVars

\* pct = 80 + int((idx / total) * 19), capped at 99; progress.emit(pct);
\* final_conversion_pct = pct; time.sleep(0.01); next file or end of loop
FileProgress(j) ==
    LET w == workers[j]
        pct == ConvPct(w.idx, w.total)
    IN
    /\ CanStep(w) /\ w.pc = "file_progress"
    /\ Step(j, [w EXCEPT !.final_conversion_pct = pct,
                         !.clock = @ + FileSleep,
                         !.pc = IF w.idx < Len(WorkerFiles(w))
                                  THEN "convert" ELSE "after_loop"],
            <<ProgressEvent(j, pct)>>)
    /\ UNCHANGED uiVars

\* required_delay with a fault seeded: the duration is taken from the start of run
required_delay_whole_job(w) == MIN_DURATION - w.clock

\* conversion_duration = time.monotonic() - start_time
\* required_delay = self.MIN_DURATION - conversion_duration
required_delay(w) == MIN_DURATION - (w.clock - w.start_time)

\* if required_delay > 0: the padding loop, else straight to progress 100
AfterLoop(j) ==
    LET w == workers[j] IN
    /\ CanStep(w) /\ w.pc = "after_loop"
    /\ Step(j, IF required_delay(w) > 0
                 THEN [w EXCEPT !.i = 1, !.dot_index = 0, !.pc = "pad_status"]
                 ELSE [w EXCEPT !.pc = "final"],
            <<>>)
    /\ UNCHANGED uiVars

\* time.sleep(step_delay); status.emit("Your images are preparing" + dots);
\* dot_index = (dot_index + 1) % len(dots)
\* (run does not read the time again after line 125, so the clock of the
\* worker is left where the per-file loop ended)
PadStatus(j) ==
    LET w == workers[j] IN
    /\ CanStep(w) /\ w.pc = "pad_status"
    /\ Step(j, [w EXCEPT !.dot_index = (@ + 1) % Len(dots), !.pc = "pad_progress"],
            <<StatusEvent(j, PreparingText, <<w.dot_index>>)>>)
    /\ UNCHANGED uiVars

\* new_pct = int(start_pct + pct_increment * i), capped; progress.emit(new_pct)
PadProgress(j) ==
    LET w == workers[j] IN
    /\ CanStep(w) /\ w.pc = "pad_progress"
    /\ Step(j, [w EXCEPT !.i = @ + 1,
                         !.pc = IF w.i + 1 > steps THEN "final" ELSE "pad_status"],
            <<ProgressEvent(j, PadPct(StartPct(w.final_conversion_pct), w.i))>>)
    /\ UNCHANGED uiVars

\* self.progress.emit(100)
FinalProgress(j) ==
    LET w == workers[j] IN
    /\ CanStep(w) /\ w.pc = "final"
    /\ Step(j, [w EXCEPT !.pc = "finish"], <<ProgressEvent(j, FinalPct)>>)
    /\ UNCHANGED uiVars

\* the done signal of the batch, then run returns
Finish(j) ==
    LET w == workers[j] IN
    /\ CanStep(w) /\ w.pc = "finish"
    /\ Step(j, Returned(w), <<FinalEvent(j, w.successful_conversions, w.total)>>)
    /\ UNCHANGED uiVars

run(j) ==
    \/ WarmStatus(j)
    \/ WarmProgress(j)
    \/ SetCancelLocked(j)
    \/ CheckFormat(j)
    \/ ConvertFile(j)
    \/ FileProgress(j)
    \/ AfterLoop(j)
    \/ PadStatus(j)
    \/ PadProgress(j)
    \/ FinalProgress(j)
    \/ Finish(j)

\* QThread.terminate() was called and the thread has now stopped
ThreadStops(j) ==
    /\ workers[j].thread = "terminating"
    /\ workers' = Collect([workers EXCEPT ![j].thread = "killed"], worker)
    /\ UNCHANGED <<uiVars, queue>>

\* ------------------------------------------------------ ImageConverterApp
Range(s) == {s[k] : k \in DOMAIN s}

\* the main window takes user input: no modal QMessageBox is open and the
\* UI thread is not between the two slots of a cancel click
UserFree == dialogs = 0 /\ slots_left = 0 /\ warning = ""

\* add_files for one new valid image path (dropEvent, on_add_images and
\* on_add_folder all end here; dropEvent is not disabled by set_ui_enabled)
add_files(p) ==
    /\ UserFree
    /\ p \notin Range(files)
    /\ files' = Append(files, p)
    /\ status_label' = Label("Added {0} image(s). Total: {1}", <<1, Len(files) + 1>>)
    /\ UNCHANGED <<call, warning, format, worker, block_status_updates, ui_enabled, cancel_shown,
                   progress_bar, restore_timers, reset_timers, dialogs, slots_left,
                   workers, jobs, queue>>

\* on_remove_selected with the non-empty selection sel
on_remove_selected(sel) ==
    /\ UserFree /\ ui_enabled
    /\ sel # {} /\ sel \subseteq Range(files)
    /\ files' = SelectSeq(files, LAMBDA f : f \notin sel)
    /\ progress_bar' = 0
    /\ status_label' = Label("Removed {0} selected. Remaining: {1}",
                             <<Cardinality(sel), Len(files')>>)
    /\ UNCHANGED <<call, warning, format, worker, block_status_updates, ui_enabled, cancel_shown,
                   restore_timers, reset_timers, dialogs, slots_left,
                   workers, jobs, queue>>

\* the user picks an entry of format_box
SelectFormat(f) ==
    /\ UserFree /\ ui_enabled
    /\ format # f
    /\ format' = f
    /\ UNCHANGED <<call, warning, files, worker, block_status_updates, ui_enabled, cancel_shown,
                   progress_bar, status_label, restore_timers, reset_timers, dialogs,
                   slots_left, workers, jobs, queue>>

\* ConvertRejected with a fault seeded: the test of the format is left out
ConvertRejected_files_only == IF files = <<>> THEN "No files" ELSE ""

\* the two early returns of on_convert: the title of the warning shown, ""
\* when the request is accepted
ConvertRejected ==
    CASE files = <<>> -> "No files"
      [] format = NoFormat -> "No Format Selected"
      [] OTHER -> ""

\* on_convert: an early return behind a QMessageBox.warning, else a new
\* ConvertWorker is started
on_convert ==
    /\ UserFree /\ ui_enabled /\ ~cancel_shown
    /\ IF ConvertRejected # ""
         THEN /\ warning' = ConvertRejected
              /\ UNCHANGED <<files, format, worker, block_status_updates, ui_enabled,
                             cancel_shown, progress_bar, status_label, restore_timers,
                             reset_timers, dialogs, slots_left, workers, jobs, queue,
                             call>>
         ELSE /\ jobs < MaxJobs
              /\ jobs' = jobs + 1
              /\ ui_enabled' = FALSE
              /\ cancel_shown' = TRUE
              /\ progress_bar' = 0
              /\ status_label' = Label("Starting conversion...", <<>>)
              /\ worker' = jobs + 1
              /\ workers' = Collect([workers EXCEPT ![jobs + 1] = NewWorker(files, format)],
                                    jobs + 1)
              /\ UNCHANGED <<files, format, block_status_updates, restore_timers,
                             reset_timers, dialogs, slots_left, queue, warning,
                             call>>

\* the user closes the warning; on_convert returns
CloseWarning ==
    /\ warning # ""
    /\ warning' = ""
    /\ UNCHANGED <<files, format, worker, block_status_updates, ui_enabled,
                   cancel_shown, progress_bar, status_label, restore_timers,
                   reset_timers, dialogs, slots_left, workers, jobs, queue, call>>

\* CancelRejected with a fault seeded: the flag is not read and every request
\* is rejected;
\* and no request is rejected
CancelRejected_always == worker # 0
CancelRejected_never == FALSE

\* if self.worker and getattr(self.worker, "_cancel_locked", False)
CancelRejected == worker # 0 /\ workers[worker].cancel_locked

\* one run of the slot on_cancel_clicked
on_cancel_clicked ==
    IF CancelRejected
      THEN /\ block_status_updates' = TRUE
           /\ status_label' = Label(CancelInvalidText, <<>>)
           /\ restore_timers' = restore_timers + 1
           /\ UNCHANGED <<ui_enabled, cancel_shown, progress_bar, workers>>
      ELSE /\ workers' = IF worker # 0 /\ isRunning(workers[worker])
                           THEN [workers EXCEPT ![worker].thread = "terminating"]
                           ELSE workers
           /\ ui_enabled' = TRUE
           /\ cancel_shown' = FALSE
           /\ status_label' = Label(CanceledText, <<>>)
           /\ progress_bar' = 0
           /\ UNCHANGED <<block_status_updates, restore_timers>>

\* the user clicks cancel_btn: the first of the connected slots runs
CancelClick ==
    /\ UserFree /\ cancel_shown
    /\ restore_timers + CancelConnections <= MaxRestoreTimers
    /\ on_cancel_clicked
    /\ slots_left' = CancelConnections - 1
    /\ UNCHANGED <<call, warning, files, format, worker, reset_timers, dialogs, jobs, queue>>

\* the next connected slot of the same click runs
CancelSlot ==
    /\ slots_left > 0
    /\ on_cancel_clicked
    /\ slots_left' = slots_left - 1
    /\ UNCHANGED <<call, warning, files, format, worker, reset_timers, dialogs, jobs, queue>>

\* _restore_status_updates, with clear_status_message
_restore_status_updates ==
    /\ slots_left = 0
    /\ restore_timers > 0
    /\ restore_timers' = restore_timers - 1
    /\ block_status_updates' = FALSE
    /\ status_label' = Label("", <<>>)
    /\ UNCHANGED <<call, warning, files, format, worker, ui_enabled, cancel_shown, progress_bar,
                   reset_timers, dialogs, slots_left, workers, jobs, queue>>

\* reset_all, run by the timer of on_conversion_done
reset_all ==
    /\ slots_left = 0
    /\ reset_timers > 0
    /\ reset_timers' = reset_timers - 1
    /\ files' = <<>>
    /\ progress_bar' = 0
    /\ status_label' = Label("Ready", <<>>)
    /\ format' = NoFormat
    /\ UNCHANGED <<call, warning, worker, block_status_updates, ui_enabled, cancel_shown,
                   restore_timers, dialogs, slots_left, workers, jobs, queue>>

\* _safe_set_status with a fault seeded: block_status_updates is not read
_safe_set_status_unguarded == TRUE

\* _safe_set_status: whether the text is shown
_safe_set_status == ~block_status_updates

\* the UI thread handles the oldest posted signal with the connected slot:
\* progress -> self.progress.setValue, status -> _safe_set_status,
\* done -> on_conversion_done up to the QMessageBox it opens
Deliver ==
    /\ slots_left = 0
    /\ queue # <<>>
    /\ LET e == Head(queue) IN
       /\ queue' = Tail(queue)
       /\ CASE e.kind = "progress" ->
                 /\ progress_bar' = e.pct
                 /\ UNCHANGED <<status_label, ui_enabled, cancel_shown, worker,
                                dialogs, workers>>
            [] e.kind = "status" ->
                 /\ status_label' = IF _safe_set_status THEN Label(e.text, e.args)
                                    ELSE status_label
                 /\ UNCHANGED <<progress_bar, ui_enabled, cancel_shown, worker,
                                dialogs, workers>>
            [] OTHER ->
                 /\ ui_enabled' = TRUE
                 /\ cancel_shown' = FALSE
                 /\ worker' = 0
                 /\ workers' = Collect(workers, 0)
                 /\ progress_bar' = IF e.ok THEN 100 ELSE 0
                 /\ status_label' = IF e.ok THEN Label(e.text, e.args)
                                    ELSE Label("Conversion failed: " \o e.text, e.args)
                 /\ dialogs' = dialogs + 1
    /\ UNCHANGED <<call, warning, files, format, block_status_updates, restore_timers, reset_timers,
                   slots_left, jobs>>

\* the user closes the QMessageBox; on_conversion_done goes on to
\* QTimer.singleShot(10000, self.reset_all)
CloseDialog ==
    /\ slots_left = 0
    /\ dialogs > 0
    /\ dialogs' = dialogs - 1
    /\ reset_timers' = reset_timers + 1
    /\ UNCHANGED <<call, warning, files, format, worker, block_status_updates, ui_enabled,
                   cancel_shown, progress_bar, status_label, restore_timers,
                   slots_left, workers, jobs, queue>>

\* ---------------------------------------------- ConvertWorker.convert_one
\* the colour modes of the images Image.open returns, and those of them that
\* have an alpha band
Modes == {"1", "L", "LA", "P", "PA", "RGB", "RGBA", "CMYK"}
AlphaModes == {"LA", "PA", "RGBA"}
\* the values of the quality argument a ConvertWorker is made with
Qualities == {1, 95, 100}
\* out_folder: "" is None; the destination folder the user chose may be a
\* folder that images were added from
OutFolders == {"", "out", "in"}
\* a Path: parent directory, stem and suffix (without the dot); add_files
\* takes every image file that is not in the list yet, from any folder
SourcePaths ==
    {[dir |-> d, stem |-> n, suffix |-> x] :
       d \in {"in", "in2"}, n \in {"a", "b"}, x \in {"png", "jpg"}}
\* the values of fmt: out_format of a worker that passed "if not out_format"
Targets == SUPPORTED_FORMATS \cup {"jpeg"}

\* An image.  mode is img.mode, transparency is "transparency" in img.info,
\* and alpha tells where the transparency of the source image is: "none" (it
\* has none), "band" (an alpha band), "entry" (the transparency entry of
\* img.info), "discarded" (dropped by a conversion) or "white" (used as the
\* mask that pasted the image on a white background).
Opened(m, t) ==
    [mode |-> m, transparency |-> t,
     alpha |-> IF m \in AlphaModes THEN "band" ELSE IF t THEN "entry" ELSE "none"]

\* img.convert(m): an alpha band or a transparency entry becomes the alpha
\* band of a mode that has one; a mode without an alpha band drops the band
\* and keeps the entry in info
convert(img, m) ==
    [mode |-> m,
     transparency |-> img.transparency /\ m \notin AlphaModes,
     alpha |-> CASE img.alpha \in {"band", "entry"} /\ m \in AlphaModes -> "band"
                 [] img.alpha = "band" /\ m \notin AlphaModes -> "discarded"
                 [] OTHER -> img.alpha]

\* background = Image.new('RGB', img.size, (255, 255, 255))
\* background.paste(img_to_convert, mask=img_to_convert.split()[3])
PasteOnWhite(img_to_convert) ==
    [mode |-> "RGB", transparency |-> FALSE,
     alpha |-> IF img_to_convert.mode = "RGBA" /\ img_to_convert.alpha = "band"
                 THEN "white" ELSE "discarded"]

\* out_path: self.out_folder / (p.stem + "." + fmt), else p.with_suffix("." + fmt)
OutPath(p, fmt, out_folder) ==
    IF out_folder # ""
      THEN [dir |-> out_folder, stem |-> p.stem, suffix |-> fmt]
      ELSE [p EXCEPT !.suffix = fmt]

\* the test that sends a JPEG conversion to the white background
NeedsBackground(img) ==
    img.mode \in {"RGBA", "LA"} \/ (img.mode = "P" /\ img.transparency)

\* img_to_save after "if fmt in ("jpg", "jpeg")"
JpegImage(img) ==
    IF NeedsBackground(img)
      THEN LET img_to_convert ==
                 IF img.mode = "P" /\ img.transparency
                   THEN convert(img, "RGBA")
                   ELSE IF img.mode # "RGBA" THEN convert(img, "RGBA") ELSE img
           IN  PasteOnWhite(img_to_convert)
      ELSE convert(img, "RGB")

\* img_to_save inside "if fmt == "pdf""
PdfImage(img_to_save) ==
    IF img_to_save.mode \in {"RGBA", "LA", "P"}
      THEN convert(img_to_save, "RGB")
      ELSE img_to_save

\* resolution=100.0
PdfResolution == 100

\* save_kwargs with a fault seeded: quality is passed for every format
save_kwargs_always(fmt, quality) == {<<"quality", quality>>}

\* save_kwargs when img_to_save.save(out_path, **save_kwargs) is reached
save_kwargs(fmt, quality) ==
    IF fmt \in {"webp", "jpg", "jpeg"} THEN {<<"quality", quality>>} ELSE {}

\* one call img.save(path, format, **kwargs); format is "" when it is left
\* to the suffix of path
SaveCall(img, path, fmt_arg, kwargs) ==
    [image |-> img, path |-> path, format |-> fmt_arg, kwargs |-> kwargs]

\* convert_one: the save calls it makes, in order, for the image img that
\* Image.open(p) returned
convert_one(p, img, fmt, out_folder, quality) ==
    LET out_path == OutPath(p, fmt, out_folder)
        img_to_save == IF fmt \in {"jpg", "jpeg"} THEN JpegImage(img) ELSE img
    IN  IF fmt = "pdf"
          THEN <<SaveCall(PdfImage(img_to_save), out_path, "PDF",
                          {<<"resolution", PdfResolution>>})>>
          ELSE <<SaveCall(img_to_save, out_path, "", save_kwargs(fmt, quality))>>

\* no call of convert_one is in progress
NoCall ==
    [pc |-> "idle", p |-> [dir |-> "", stem |-> "", suffix |-> ""],
     img |-> Opened("RGB", FALSE), fmt |-> NoFormat, out_folder |-> "",
     quality |-> 95, saves |-> <<>>]

\* convert_one runs from Image.open to its return
ConvertOneCall ==
    /\ call.pc = "called"
    /\ call' = [call EXCEPT
                  !.saves = convert_one(call.p, call.img, call.fmt,
                                        call.out_folder, call.quality),
                  !.pc = "returned"]
    /\ UNCHANGED <<files, format, worker, block_status_updates, ui_enabled,
                   cancel_shown, progress_bar, status_label, restore_timers,
                   reset_timers, dialogs, slots_left, workers, jobs, queue, warning>>

\* ---------------------------------------------------------- specifications
\* ImageConverterApp.__init__ and setup_ui, then main, which replaces the
\* label text when pillow_heif is not installed
Init ==
    /\ files = <<>>
    /\ format = NoFormat
    /\ worker = 0
    /\ block_status_updates = FALSE
    /\ ui_enabled = TRUE
    /\ cancel_shown = FALSE
    /\ progress_bar = 0
    /\ status_label \in {Label("Ready", <<>>), Label(HeifWarningText, <<>>)}
    /\ restore_timers = 0
    /\ reset_timers = 0
    /\ dialogs = 0
    /\ slots_left = 0
    /\ workers = [j \in Jobs |-> NoWorker]
    /\ jobs = 0
    /\ queue = <<>>
    /\ warning = ""
    /\ call = NoCall

Next ==
    \/ \E p \in Paths : add_files(p)
    \/ \E sel \in SUBSET Paths : on_remove_selected(sel)
    \/ \E f \in UiFormats \cup {NoFormat} : SelectFormat(f)
    \/ on_convert
    \/ CloseWarning
    \/ CancelClick
    \/ CancelSlot
    \/ _restore_status_updates
    \/ reset_all
    \/ Deliver
    \/ CloseDialog
    \/ \E j \in Jobs : run(j)
    \/ \E j \in Jobs : ThreadStops(j)

Spec == Init /\ [][Next]_vars

\* Every job ConvertWorker accepts, run on its own: a list of n distinct
\* paths for every n from 0 (add_files keeps the list free of duplicates, and
\* run reads a path only to name it in a status text, so the lists of one
\* length differ by a renaming of the paths), with every format and None
FileLists == {[k \in 1..n |-> k] : n \in 0..MaxBatch}

\* the state on_convert leaves, for a worker made from the job (fs, fmt)
WorkerInit ==
    /\ files \in FileLists
    /\ format \in UiFormats \cup {NoFormat}
    /\ worker = 1
    /\ block_status_updates = FALSE
    /\ ui_enabled = FALSE
    /\ cancel_shown = TRUE
    /\ progress_bar = 0
    /\ status_label = Label("Starting conversion...", <<>>)
    /\ restore_timers = 0
    /\ reset_timers = 0
    /\ dialogs = 0
    /\ slots_left = 0
    /\ workers = [j \in Jobs |-> IF j = 1 THEN NewWorker(files, format) ELSE NoWorker]
    /\ jobs = 1
    /\ queue = <<>>
    /\ warning = ""
    /\ call = NoCall

WorkerNext ==
    \/ \E j \in Jobs : run(j)
    \/ Deliver
    \/ CloseDialog

WorkerSpec == WorkerInit /\ [][WorkerNext]_vars

\* the scheduler runs a runnable thread and the Qt event loop handles a
\* posted signal: both are weakly fair
FairWorkerSpec ==
    WorkerSpec /\ WF_vars(\E j \in Jobs : run(j)) /\ WF_vars(Deliver)

\* Every call of convert_one on its own: every source image mode, with and
\* without a transparency entry, every target format, folder and quality
ConvertInit ==
    /\ files = <<>>
    /\ format = NoFormat
    /\ worker = 0
    /\ block_status_updates = FALSE
    /\ ui_enabled = TRUE
    /\ cancel_shown = FALSE
    /\ progress_bar = 0
    /\ status_label = Label("Ready", <<>>)
    /\ restore_timers = 0
    /\ reset_timers = 0
    /\ dialogs = 0
    /\ slots_left = 0
    /\ workers = [j \in Jobs |-> NoWorker]
    /\ jobs = 0
    /\ queue = <<>>
    /\ warning = ""
    /\ \E p \in SourcePaths, m \in Modes, t \in BOOLEAN, fmt \in Targets,
          out_folder \in OutFolders, quality \in Qualities :
         call = [pc |-> "called", p |-> p, img |-> Opened(m, t), fmt |-> fmt,
                 out_folder |-> out_folder, quality |-> quality, saves |-> <<>>]

ConvertNext == ConvertOneCall

ConvertSpec == ConvertInit /\ [][ConvertNext]_vars

\* ------------------------------------------------------------------ claims
Last(s) == s[Len(s)]
\* a worker object that exists
Live(w) == w.thread \notin {"none", "freed"}
ProgressOf(es) == SelectSeq(es, LAMBDA e : e.kind = "progress")
DoneOf(es) == SelectSeq(es, LAMBDA e : e.kind = "done")
ErrorTexts == {SkippedUnidentifiedText, SkippedOSErrorText, ErrorConvertingText}
ErrorsOf(es) == SelectSeq(es, LAMBDA e : e.kind = "status" /\ e.text \in ErrorTexts)
NonDecreasing(ps) == \A k \in 1..(Len(ps) - 1) : ps[k].pct <= ps[k + 1].pct
\* run has left the per-file loop by its end
PastLoop(w) == w.pc \in {"after_loop", "pad_status", "pad_progress", "final", "finish"}
\* run returned after the end of the batch
BatchDone(w) ==
    /\ w.pc = "returned"
    /\ w.emitted # <<>>
    /\ Last(w.emitted).kind = "done"
    /\ Last(w.emitted).text \in {AllOkText, PartialText, AllFailedText}
\* one of the slots of a cancel click runs in this step
CancelRan == slots_left' # slots_left
AfterWarmUp == {"Converting", "TailPadding", "Final", "Returned"}

\* C1 as stated: a cancellation request during the warm-up is rejected: the
\* worker is not terminated and the label shows "Cancel not valid now".
C1_Original ==
    [][(CancelRan /\ worker # 0 /\ Phase(workers[worker]) = "WarmUp")
         => /\ workers'[worker].thread = "running"
            /\ status_label' = Label(CancelInvalidText, <<>>)]_vars

\* C1 amended: a cancellation request during the warm-up (before run sets
\* _cancel_locked) is accepted: terminate() is called on the running worker,
\* the label shows "Conversion canceled.", the progress bar is set to 0, the
\* controls are enabled again and the cancel button is hidden; status updates
\* are not blocked and no restore timer is started.
C1_CancelInWarmUpTerminates ==
    [][(CancelRan /\ worker # 0 /\ Phase(workers[worker]) = "WarmUp")
         => /\ workers'[worker].thread \in {"terminating", "killed"}
            /\ status_label' = Label(CanceledText, <<>>)
            /\ progress_bar' = 0
            /\ ui_enabled' /\ ~cancel_shown'
            /\ UNCHANGED <<block_status_updates, restore_timers>>]_vars

C1_Witness ==
    /\ worker # 0
    /\ workers[worker].thread = "terminating"
    /\ Phase(workers[worker]) = "WarmUp"
    /\ status_label = Label(CanceledText, <<>>)
    /\ ui_enabled

\* C2 as stated: a cancellation request after the warm-up (Converting or
\* TailPadding) stops the job: the worker is terminated.
C2_Original ==
    [][(CancelRan /\ worker # 0
          /\ Phase(workers[worker]) \in {"Converting", "TailPadding"})
         => workers'[worker].thread # "running"]_vars

\* C2 amended: a cancellation request after the warm-up (once run has set
\* _cancel_locked) is rejected: no worker is terminated or otherwise changed,
\* nothing posted is discarded, the label shows "Cancel not valid now",
\* status updates are blocked and one restore timer is started; the
\* controls, the cancel button and the progress bar stay as they are.
C2_CancelAfterWarmUpRejected ==
    [][(CancelRan /\ worker # 0 /\ Phase(workers[worker]) \in AfterWarmUp)
         => /\ workers' = workers
            /\ queue' = queue
            /\ status_label' = Label(CancelInvalidText, <<>>)
            /\ block_status_updates'
            /\ restore_timers' = restore_timers + 1
            /\ UNCHANGED <<ui_enabled, cancel_shown, progress_bar, worker>>]_vars

C2_Witness ==
    /\ worker # 0
    /\ workers[worker].thread = "running"
    /\ Phase(workers[worker]) \in {"Converting", "TailPadding"}
    /\ status_label = Label(CancelInvalidText, <<>>)
    /\ block_status_updates
    /\ ~ui_enabled /\ cancel_shown

\* C3: for a job with at least one file and a format, the progress values
\* emitted by one run never decrease, and when run returns after the end of
\* the batch the last progress value emitted is 100.
C3_ProgressMonotone ==
    \A j \in Jobs :
      LET w == workers[j]
          ps == ProgressOf(w.emitted)
      IN  (Live(w) /\ Len(w.files) >= 1 /\ w.out_format # NoFormat)
            => /\ NonDecreasing(ps)
               /\ BatchDone(w) => (ps # <<>> /\ Last(ps).pct = FinalPct)

C3_Witness ==
    \E j \in Jobs :
      /\ BatchDone(workers[j])
      /\ Len(workers[j].files) = MaxBatch
      /\ Last(ProgressOf(workers[j].emitted)).pct = FinalPct
      /\ Len(ProgressOf(workers[j].emitted)) = WarmupTicks + MaxBatch + steps + 1

\* C4: the files passed to convert_one are always the first files of the
\* job, in input order, each once; once the per-file loop is left every file
\* of the job was attempted, whatever the outcomes, and a run of a job with a
\* format only returns after the end of the batch.
C4_EveryFileAttempted ==
    \A j \in Jobs :
      LET w == workers[j] IN
      Live(w) =>
        /\ Len(w.attempts) <= Len(w.files)
        /\ w.attempts = SubSeq(w.files, 1, Len(w.attempts))
        /\ (PastLoop(w) \/ BatchDone(w)) => w.attempts = w.files
        /\ (w.pc = "returned" /\ w.out_format # NoFormat) => BatchDone(w)

C4_Witness ==
    \E j \in Jobs :
      LET w == workers[j] IN
      /\ BatchDone(w)
      /\ Len(w.files) >= 2
      /\ w.attempts = w.files
      /\ \E k \in DOMAIN w.emitted :
           /\ w.emitted[k].kind = "status"
           /\ w.emitted[k].text = ErrorConvertingText
           /\ w.emitted[k].args = <<w.files[1]>>

\* the number of files of the run whose convert_one call returned
Succeeded(w) == Len(w.attempts) - Len(ErrorsOf(w.emitted))

\* C5: when the batch of a job with total > 0 ends, the done signal follows
\* from the number of files converted alone: all of them gives (True, all
\* completed), some gives (True, converted s of total), none gives (False,
\* all failed).
C5_CompletionByCount ==
    \A j \in Jobs :
      LET w == workers[j]
          total == Len(w.files)
          s == Succeeded(w)
          e == Last(w.emitted)
      IN  (BatchDone(w) /\ total > 0)
            => /\ s = total => (e.ok /\ e.text = AllOkText)
               /\ (0 < s /\ s < total)
                    => (e.ok /\ e.text = PartialText /\ e.args = <<s, total>>)
               /\ s = 0 => (~e.ok /\ e.text = AllFailedText)

C5_Witness ==
    \E j \in Jobs :
      LET w == workers[j] IN
      /\ BatchDone(w)
      /\ Len(w.files) = 2
      /\ Succeeded(w) = 1
      /\ Last(w.emitted).ok
      /\ Last(w.emitted).args = <<1, 2>>

\* C6: a run emits at most one done signal, nothing is emitted after it, and
\* a run that returned has emitted exactly one.
C6_OneTerminalCompletion ==
    \A j \in Jobs :
      LET w == workers[j]
          n == Len(DoneOf(w.emitted))
      IN  Live(w) =>
            /\ n <= 1
            /\ n = 1 => (Last(w.emitted).kind = "done" /\ w.pc = "returned")
            /\ w.pc = "returned" => n = 1

C6_Witness ==
    \E j \in Jobs :
      LET w == workers[j] IN
      /\ w.pc = "returned"
      /\ Len(DoneOf(w.emitted)) = 1
      /\ Last(w.emitted).text = AllFailedText

\* C7: a job started with no output format emits the warm-up signals only,
\* then done(False, "Error: No output format selected."); no file is passed
\* to convert_one and no progress value of 80 or more is emitted.
C7_NoFormatFails ==
    \A j \in Jobs :
      LET w == workers[j] IN
      (Live(w) /\ w.out_format = NoFormat) =>
        /\ w.attempts = <<>>
        /\ w.pc \in {"warm_status", "warm_progress", "lock", "check_format", "returned"}
        /\ \A k \in DOMAIN w.emitted :
             LET e == w.emitted[k] IN
             /\ e.kind = "progress" => e.pct < ConvBase
             /\ e.kind = "status" => e.text = WaitText
             /\ e.kind = "done" => (~e.ok /\ e.text = NoFormatText)
        /\ w.pc = "returned"
             => /\ Len(w.emitted) = 2 * WarmupTicks + 1
                /\ Last(w.emitted).kind = "done"

C7_Witness ==
    \E j \in Jobs :
      LET w == workers[j] IN
      /\ w.out_format = NoFormat
      /\ Len(w.files) >= 1
      /\ w.pc = "returned"
      /\ Last(w.emitted) = CompletionEvent(j, FALSE, NoFormatText, <<>>)

\* C8 as stated: at most one worker thread runs at any time, a thread that
\* terminate() was called on and that has not stopped included.
C8_AtMostOneWorkerRunning ==
    Cardinality({j \in Jobs : isRunning(workers[j])}) <= 1

\* the UI thread handles the oldest posted signal in this step
Handled == queue # <<>> /\ queue' = Tail(queue)
\* worker j emits a signal in this step
Posted(j) == Len(workers'[j].emitted) = Len(workers[j].emitted) + 1
\* the signal e takes effect at the observer in this step
TookEffect(e) ==
    CASE e.kind = "progress" -> progress_bar' = e.pct
      [] e.kind = "status" -> status_label' = Label(e.text, e.args)
      [] OTHER -> /\ worker' = 0
                  /\ dialogs' = dialogs + 1
                  /\ progress_bar' = (IF e.ok THEN 100 ELSE 0)
\* every emitted signal is posted once, behind the signals posted before it,
\* and a posted signal leaves the queue only by being handled, oldest first
InOrderOnce ==
    /\ \A j \in Jobs : Posted(j) => queue' = Append(queue, Last(workers'[j].emitted))
    /\ queue' # queue => (Handled \/ \E j \in Jobs : Posted(j))

C10_EventuallyCompletes ==
    \A j \in Jobs :
      (workers[j].thread = "running")
        ~> (workers[j].pc = "returned" /\ Len(DoneOf(workers[j].emitted)) = 1)

C10_Witness ==
    \E j \in Jobs :
      LET w == workers[j] IN
      /\ w.pc = "returned"
      /\ w.thread = "finished"
      /\ Len(w.files) = MaxBatch
      /\ Len(ErrorsOf(w.emitted)) = MaxBatch
      /\ Len(DoneOf(w.emitted)) = 1
\* the number of entries of the sequence s that satisfy Test
Count(s, Test(_)) == Len(SelectSeq(s, Test))
SkippedTexts == {SkippedUnidentifiedText, SkippedOSErrorText}
\* the files of a run reported as skipped, and as failed
Skipped(w) == Count(w.emitted, LAMBDA e : e.kind = "status" /\ e.text \in SkippedTexts)
Failed(w) == Count(w.emitted, LAMBDA e : e.kind = "status" /\ e.text = ErrorConvertingText)
\* the convert_one calls of a run that returned without raising
ReturnedCalls(w) == Count(w.outcomes, LAMBDA o : o = "ok")

\* C11: in a run with a format the success counter is the number of
\* convert_one calls that returned, so it never exceeds the number of files
\* processed so far; each other file processed is reported once, as skipped
\* or as failed; and when the batch ends total = succeeded + skipped + failed
\* with one outcome per file.
C11_OutcomeAccounting ==
    \A j \in Jobs :
      LET w == workers[j] IN
      (Live(w) /\ w.out_format # NoFormat) =>
        /\ Len(w.outcomes) = Len(w.attempts)
        /\ w.successful_conversions = ReturnedCalls(w)
        /\ w.successful_conversions <= Len(w.attempts)
        /\ Skipped(w) + Failed(w) = Len(w.outcomes) - ReturnedCalls(w)
        /\ Phase(w) \in {"TailPadding", "Final"} \/ BatchDone(w)
             => /\ w.total = Len(w.files)
                /\ w.total = Len(w.outcomes)
                /\ w.total = w.successful_conversions + Skipped(w) + Failed(w)

C11_Witness ==
    \E j \in Jobs :
      LET w == workers[j] IN
      /\ BatchDone(w)
      /\ w.total = 2
      /\ w.outcomes = <<"OSError", "ok">>
      /\ w.successful_conversions = 1
      /\ Skipped(w) = 1 /\ Failed(w) = 0
\* the source image of a call has transparency the claims speak of: an alpha
\* band, or a palette with a transparency entry
HasAlpha(img) == img.mode \in AlphaModes \/ (img.mode = "P" /\ img.transparency)
ToJpeg == call.fmt \in {"jpg", "jpeg"}

\* C12 as stated: convert_one to JPEG saves an image without an alpha band,
\* and for every source image with an alpha band, or with a palette and a
\* transparency entry, the image saved is the source pasted on a white
\* background with its alpha as mask.
C12_JpegOnWhite ==
    (call.pc = "returned" /\ ToJpeg) =>
      \A k \in DOMAIN call.saves :
        /\ call.saves[k].image.mode \notin AlphaModes
        /\ HasAlpha(call.img) => call.saves[k].image.alpha = "white"

\* what holds of it: the image saved has mode RGB, and it is the source on
\* white exactly for the modes RGBA and LA and for P with a transparency entry
C12_JpegOnWhiteForListedModes ==
    (call.pc = "returned" /\ ToJpeg) =>
      /\ Len(call.saves) = 1
      /\ call.saves[1].image.mode = "RGB"
      /\ NeedsBackground(call.img) <=> call.saves[1].image.alpha = "white"

\* a palette image with an alpha band, saved as JPEG by a plain conversion
C12_Witness ==
    /\ call.pc = "returned" /\ ToJpeg
    /\ call.img = Opened("PA", FALSE)
    /\ call.saves[1].image = [mode |-> "RGB", transparency |-> FALSE, alpha |-> "discarded"]
\* the formats whose encoder takes the quality argument
QualityFormats == {"jpg", "jpeg", "webp"}
\* a save call is given the keyword argument named n
HasKwarg(c, n) == \E kw \in c.kwargs : kw[1] = n

\* C13: a save call of convert_one is given quality if and only if the
\* target format is JPEG or WEBP, and then it is the worker's quality; for
\* every other format the save calls are the same for every quality value.
C13_QualityOnlyForJpegWebp ==
    call.pc = "returned" =>
      /\ \A k \in DOMAIN call.saves :
           /\ HasKwarg(call.saves[k], "quality") <=> call.fmt \in QualityFormats
           /\ call.fmt \in QualityFormats
                => <<"quality", call.quality>> \in call.saves[k].kwargs
      /\ call.fmt \notin QualityFormats
           => \A q \in Qualities :
                convert_one(call.p, call.img, call.fmt, call.out_folder, q) = call.saves

C13_Witness ==
    /\ call.pc = "returned"
    /\ call.fmt = "png"
    /\ call.quality = 1
    /\ Len(call.saves) = 1
    /\ call.saves[1].kwargs = {}
PaletteModes == {"P", "PA"}
\* the one write of a PDF conversion: format PDF, resolution 100, no quality
PdfWrite(c) ==
    /\ c.format = "PDF"
    /\ c.kwargs = {<<"resolution", PdfResolution>>}
    /\ c.path = OutPath(call.p, "pdf", call.out_folder)

\* C14 as stated: convert_one to PDF makes one save call, with format PDF,
\* resolution 100 and no quality, and for every source image with an alpha
\* band or a palette the image written is a plain conversion to RGB, not
\* pasted on a white background.
C14_PdfPlainRgb ==
    (call.pc = "returned" /\ call.fmt = "pdf") =>
      /\ Len(call.saves) = 1
      /\ PdfWrite(call.saves[1])
      /\ call.saves[1].image.alpha # "white"
      /\ call.img.mode \in AlphaModes \cup PaletteModes
           => call.saves[1].image.mode = "RGB"

\* what holds of it: the single write, and the plain conversion to RGB
\* exactly for the modes RGBA, LA and P; every other image is written as it
\* was opened
C14_PdfPlainRgbForListedModes ==
    (call.pc = "returned" /\ call.fmt = "pdf") =>
      /\ Len(call.saves) = 1
      /\ PdfWrite(call.saves[1])
      /\ call.saves[1].image.alpha # "white"
      /\ IF call.img.mode \in {"RGBA", "LA", "P"}
           THEN call.saves[1].image = convert(call.img, "RGB")
           ELSE call.saves[1].image = call.img

\* a palette image with an alpha band, written to PDF as it was opened
C14_Witness ==
    /\ call.pc = "returned" /\ call.fmt = "pdf"
    /\ call.img = Opened("PA", FALSE)
    /\ PdfWrite(call.saves[1])
    /\ call.saves[1].image.mode = "PA"
Min(a, b) == IF a < b THEN a ELSE b
\* the files of a run whose progress value was emitted
Reported(w) == Len(w.attempts) - (IF w.pc = "file_progress" THEN 1 ELSE 0)

\* C15: in a run with a format and n >= 1 files, the progress value emitted
\* after file i is min(99, 80 + floor(19 i / n)), one value per file and
\* after the warm-up values; it lies in 80..99, the value after the last file
\* is 99, and no 100 is emitted while the run is in the Converting phase.
C15_ConversionPercent ==
    /\ \A n \in 1..MaxTotal : \A i \in 1..n :
         /\ ConvPct(i, n) = Min(99, 80 + ((19 * i) \div n))
         /\ ConvPct(i, n) \in 80..99
         /\ ConvPct(n, n) = 99
    /\ \A j \in Jobs :
         LET w == workers[j]
             n == Len(w.files)
             ps == ProgressOf(w.emitted)
         IN  (Live(w) /\ w.out_format # NoFormat /\ n >= 1 /\ Phase(w) # "WarmUp") =>
               /\ Len(ps) >= WarmupTicks + Reported(w)
               /\ \A i \in 1..Reported(w) :
                    /\ ps[WarmupTicks + i].pct = Min(99, 80 + ((19 * i) \div n))
                    /\ ps[WarmupTicks + i].pct \in 80..99
               /\ Reported(w) = n => ps[WarmupTicks + n].pct = 99
               /\ Phase(w) = "Converting" =>
                    /\ Len(ps) = WarmupTicks + Reported(w)
                    /\ \A k \in DOMAIN ps : ps[k].pct # 100

C15_Witness ==
    \E j \in Jobs :
      LET w == workers[j]
          ps == ProgressOf(w.emitted)
      IN  /\ w.pc = "after_loop"
          /\ Len(w.files) = 2
          /\ Len(ps) = WarmupTicks + 2
          /\ ps[WarmupTicks + 1].pct = 89
          /\ ps[WarmupTicks + 2].pct = 99
\* the signals of a run's warm-up: the first 16 it emits, or all while it
\* is still in the warm-up
WarmUpSignals(w) ==
    IF Phase(w) = "WarmUp" THEN w.emitted ELSE SubSeq(w.emitted, 1, 16)

\* C16 as stated: the warm-up has 8 ticks, each emitting the waiting text
\* and one progress value, and the values run from 0 at the first tick to 80
\* at the last.
C16_Original ==
    \A j \in Jobs :
      LET w == workers[j]
          ps == ProgressOf(WarmUpSignals(w))
      IN  (Live(w) /\ Phase(w) # "WarmUp") =>
            /\ Len(ps) = 8
            /\ ps[1].pct = 0
            /\ ps[8].pct = 80

\* C16 amended: the warm-up has exactly 8 ticks; tick k emits the waiting
\* text and then the progress value 10 (k - 1), so the values are 0, 10, ...,
\* 70: they rise by 80 / 8 per tick and 80 itself is not emitted in the
\* warm-up; the waiting text is emitted nowhere else.
C16_WarmUpTicks ==
    \A j \in Jobs :
      LET w == workers[j]
          ws == WarmUpSignals(w)
      IN  Live(w) =>
            /\ Len(ws) <= 16
            /\ Phase(w) # "WarmUp" => Len(ws) = 16
            /\ \A k \in DOMAIN ws :
                 IF k % 2 = 1
                   THEN ws[k] = StatusEvent(j, WaitText, <<>>)
                   ELSE ws[k] = ProgressEvent(j, 10 * ((k \div 2) - 1))
            /\ \A k \in DOMAIN w.emitted :
                 (k > 16) => ~(w.emitted[k].kind = "status" /\ w.emitted[k].text = WaitText)

C16_Witness ==
    \E j \in Jobs :
      LET w == workers[j] IN
      /\ w.pc = "lock"
      /\ Len(w.emitted) = 16
      /\ w.emitted[15] = StatusEvent(j, WaitText, <<>>)
      /\ w.emitted[16] = ProgressEvent(j, 70)
\* the time a run has spent since its start, in units of 10 ms (the clock
\* of a worker starts at 0), and since the end of its warm-up
JobElapsed(w) == w.clock
ConversionElapsed(w) == w.clock - WarmupTicks * TickSleep
\* the number of padding steps whose status text was emitted
PadSteps(w) == Count(w.emitted, LAMBDA e : e.kind = "status" /\ e.text = PreparingText)
\* the per-file loop and the test of required_delay are behind the run
LoopLeft(w) == Phase(w) \in {"TailPadding", "Final"} \/ BatchDone(w)

\* C17 as stated: tail-padding runs if and only if the time since the start
\* of the job, warm-up included, is below the floor of 10 s when the last
\* file has been processed.
C17_Original ==
    \A j \in Jobs :
      LET w == workers[j] IN
      (Live(w) /\ w.out_format # NoFormat /\ LoopLeft(w)) =>
        ((Phase(w) = "TailPadding" \/ PadSteps(w) > 0) <=> JobElapsed(w) < 1000)

\* C17 amended: tail-padding runs if and only if the time since the end of
\* the warm-up (the duration of the Converting phase) is below the floor of
\* 10 s when the last file has been processed; otherwise no padding step runs
\* and the final 100 follows the last file's value directly.
C17_PaddingByConversionTime ==
    \A j \in Jobs :
      LET w == workers[j]
          ps == ProgressOf(w.emitted)
      IN  (Live(w) /\ w.out_format # NoFormat /\ LoopLeft(w)) =>
            /\ (Phase(w) = "TailPadding" \/ PadSteps(w) > 0)
                 <=> ConversionElapsed(w) < 1000
            /\ (ConversionElapsed(w) >= 1000 /\ BatchDone(w))
                 => /\ Len(ps) = WarmupTicks + Len(w.files) + 1
                    /\ Last(ps).pct = 100

\* padding runs although the job has lasted longer than the floor
C17_Witness ==
    \E j \in Jobs :
      LET w == workers[j] IN
      /\ Phase(w) = "TailPadding"
      /\ PadSteps(w) > 0
      /\ JobElapsed(w) >= 1000
      /\ ConversionElapsed(w) < 1000
\* the signals a run emitted up to the end of its per-file loop: those of
\* the warm-up, one progress value per file and one status text per file that
\* failed; and the signals it emitted after them, without the done signal
LoopSignals(w) == 2 * WarmupTicks + Len(w.files) + Len(ErrorsOf(w.emitted))
TailSignals(w) ==
    SelectSeq(SubSeq(w.emitted, LoopSignals(w) + 1, Len(w.emitted)),
              LAMBDA e : e.kind # "done")

\* C18: when tail-padding runs it takes exactly 30 steps, each emitting the
\* preparing text with 0, 1, 2, 3, 0, ... dots and then one progress value
\* between the last per-file value and 99 (99 for a job with files); then, or
\* at once when padding is skipped, 100 is emitted, and the done signal
\* follows it directly.
C18_TailPadding ==
    \A j \in Jobs :
      LET w == workers[j]
          ts == TailSignals(w)
          padded == ConversionElapsed(w) < 1000
          pad == IF padded THEN SubSeq(ts, 1, Min(60, Len(ts))) ELSE <<>>
      IN  (Live(w) /\ w.out_format # NoFormat /\ LoopLeft(w)) =>
            /\ \A k \in DOMAIN pad :
                 IF k % 2 = 1
                   THEN pad[k] = StatusEvent(j, PreparingText, <<((k - 1) \div 2) % 4>>)
                   ELSE /\ pad[k].kind = "progress"
                        /\ pad[k].pct >= w.final_conversion_pct
                        /\ pad[k].pct <= 99
                        /\ Len(w.files) >= 1 => pad[k].pct = 99
            /\ Phase(w) = "TailPadding" => Len(ts) < 60
            /\ Phase(w) = "Final" /\ w.pc = "final" => Len(ts) = Len(pad)
            /\ (w.pc = "finish" \/ BatchDone(w))
                 => /\ Len(pad) = (IF padded THEN 60 ELSE 0)
                    /\ Len(ts) = Len(pad) + 1
                    /\ Last(ts) = ProgressEvent(j, 100)
            /\ BatchDone(w)
                 => /\ Len(w.emitted) = LoopSignals(w) + Len(ts) + 1
                    /\ w.emitted[Len(w.emitted) - 1] = ProgressEvent(j, 100)

C18_Witness ==
    \E j \in Jobs :
      LET w == workers[j] IN
      /\ BatchDone(w)
      /\ Len(w.files) = 1
      /\ PadSteps(w) = 30
      /\ Len(TailSignals(w)) = 61
      /\ TailSignals(w)[59] = StatusEvent(j, PreparingText, <<1>>)
      /\ TailSignals(w)[60] = ProgressEvent(j, 99)
      /\ TailSignals(w)[61] = ProgressEvent(j, 100)
\* the status text the claim gives a failed file, by what convert_one raised
TextFor(o) ==
    CASE o = "UnidentifiedImageError" -> "Skipped: {0}. Unidentified or corrupted file format."
      [] o = "OSError" -> "Skipped: {0}. File read/write error (OSError)."
      [] OTHER -> "Error converting {0}. See console for details."
Shape(e) == <<e.kind, e.text, e.args>>
\* the signals of the files 1..i of a run, as the claim has them: for a file
\* that failed its status text, then for every file its progress value
RECURSIVE ExpectedLoop(_, _)
ExpectedLoop(w, i) ==
    IF i = 0 THEN <<>>
    ELSE ExpectedLoop(w, i - 1)
           \o (IF w.outcomes[i] = "ok" THEN <<>>
               ELSE << <<"status", TextFor(w.outcomes[i]), <<w.files[i]>> >> >>)
           \o (IF i <= Reported(w) THEN << <<"progress", "", <<>> >> >> ELSE <<>>)

\* C19: in the per-file loop a file that converts emits no status text and a
\* file that fails emits exactly one, before its progress value: the
\* "Unidentified or corrupted" text for an undecodable image, the "File
\* read/write error" text for another OSError and the "Error converting"
\* text for any other exception; nothing else is emitted in the loop.
C19_PerFileStatus ==
    \A j \in Jobs :
      LET w == workers[j]
          expected == ExpectedLoop(w, Len(w.outcomes))
          first == 2 * WarmupTicks + 1
      IN  (Live(w) /\ w.out_format # NoFormat /\ Phase(w) # "WarmUp") =>
            /\ Len(w.emitted) >= first - 1 + Len(expected)
            /\ \A k \in DOMAIN expected : Shape(w.emitted[first - 1 + k]) = expected[k]
            /\ Phase(w) = "Converting" => Len(w.emitted) = first - 1 + Len(expected)
            /\ \A k \in DOMAIN w.emitted :
                 (w.emitted[k].kind = "status" /\ w.emitted[k].text \in ErrorTexts)
                   => (k >= first /\ k <= first - 1 + Len(expected))

C19_Witness ==
    \E j \in Jobs :
      LET w == workers[j] IN
      /\ w.pc = "after_loop"
      /\ w.outcomes = <<"UnidentifiedImageError", "ok">>
      /\ Len(w.emitted) = 2 * WarmupTicks + 3
      /\ w.emitted[2 * WarmupTicks + 1]
           = StatusEvent(j, SkippedUnidentifiedText, <<w.files[1]>>)
      /\ w.emitted[2 * WarmupTicks + 2].kind = "progress"
      /\ w.emitted[2 * WarmupTicks + 3].kind = "progress"
\* C20: a worker's file list is the application's list as it was when the
\* worker was constructed, and it stays that list whatever the application
\* does to its own (remove selected, add files, reset_all); the files the
\* worker passes to convert_one are that list's, in order, and all of them
\* once the per-file loop is left.
C20_JobFilesImmutable ==
    [][\A j \in Jobs :
         LET w == workers[j]
             w2 == workers'[j]
         IN  /\ (~Live(w) /\ Live(w2)) => w2.files = files
             /\ (Live(w) /\ Live(w2)) => w2.files = w.files
             /\ Live(w2) =>
                  /\ w2.attempts = SubSeq(w2.files, 1, Len(w2.attempts))
                  /\ PastLoop(w2) => (w2.attempts = w2.files /\ w2.total = Len(w2.files))]_vars

\* the application's list was emptied while the worker was converting
C20_Witness ==
    \E j \in Jobs :
      LET w == workers[j] IN
      /\ w.thread = "running"
      /\ w.pc = "after_loop"
      /\ w.files # <<>>
      /\ files = <<>>
      /\ w.attempts = w.files
\* on_convert constructs a worker in this step
Started == jobs' # jobs

\* C21: on_convert starts a worker only from a non-empty file list and a
\* selected format of SUPPORTED_FORMATS, and hands both to the worker, so no
\* worker ever has an empty list or no format; when it rejects the request it
\* only shows its warning: the worker reference, the workers, the controls,
\* the progress bar, the label, the list and the format stay as they are.
C21_ConvertPreconditions ==
    [][/\ Started =>
            /\ files # <<>>
            /\ format \in SUPPORTED_FORMATS
            /\ worker' = jobs'
            /\ workers'[jobs'].files = files
            /\ workers'[jobs'].out_format = format
       /\ \A j \in Jobs :
            Live(workers'[j]) =>
              (workers'[j].files # <<>> /\ workers'[j].out_format \in SUPPORTED_FORMATS)
       /\ (warning = "" /\ warning' # "") =>
            /\ files = <<>> \/ format = NoFormat
            /\ warning' = (IF files = <<>> THEN "No files" ELSE "No Format Selected")
            /\ UNCHANGED <<files, format, worker, workers, jobs, queue, ui_enabled,
                           cancel_shown, progress_bar, status_label,
                           block_status_updates, restore_timers, reset_timers>>]_vars

\* a request rejected for its format, with files in the list
C21_Witness ==
    /\ warning = "No Format Selected"
    /\ files # <<>>
    /\ format = NoFormat
    /\ worker = 0
    /\ ui_enabled /\ ~cancel_shown
\* a reset_all timer fires in this step
ResetFired == reset_timers' = reset_timers - 1
\* a job is active: on_convert set self.worker and on_conversion_done has
\* not cleared it, and no cancellation request stopped it
JobActive == worker # 0 /\ workers[worker].thread = "running"

\* C22 as stated: the reset_all that on_conversion_done schedules never runs
\* while a job is active, so during a job the progress bar is not set back to
\* 0, the label is not set to "Ready" and the file list and the format are
\* not cleared by the timer of an earlier job.
C22_NoResetDuringJob ==
    [][ResetFired => ~JobActive]_vars

\* the timer of the first job has reset the window during the second
C22_Witness ==
    /\ worker = 2
    /\ workers[2].thread = "running"
    /\ Phase(workers[2]) = "WarmUp"
    /\ files = <<>>
    /\ format = NoFormat
    /\ status_label = Label("Ready", <<>>)
    /\ progress_bar = 0
    /\ ~ui_enabled
\* a _restore_status_updates timer fires in this step
RestoreFired == restore_timers' = restore_timers - 1
\* the label shows the message on_conversion_done set
CompletionTexts ==
    {AllOkText, PartialText} \cup
    {"Conversion failed: " \o t : t \in {AllFailedText, NoFormatText, CriticalText}}
CompletionShown == status_label.text \in CompletionTexts

\* C23 as stated: the timer that a rejected cancellation request starts
\* never clears or replaces a completion message that on_conversion_done has
\* displayed in the meantime, and block_status_updates is false once it fired.
C23_CompletionMessageKept ==
    [][RestoreFired =>
         /\ ~block_status_updates'
         /\ CompletionShown => status_label' = status_label]_vars

\* the message box of a finished job is still open and the label, which
\* showed the completion message, has been cleared
C23_Witness ==
    /\ dialogs = 1
    /\ worker = 0
    /\ jobs = 1
    /\ progress_bar = 100
    /\ reset_timers = 0
    /\ status_label = Label("", <<>>)
    /\ ~block_status_updates
\* C24 as stated: the file a conversion writes is neither the output of
\* another file that a job can hold beside it (any other path add_files
\* accepts) nor one of the input files, for every target format and with or
\* without a destination folder.
C24_NoOverwrite ==
    call.pc = "returned" =>
      \A k \in DOMAIN call.saves :
        /\ \A q \in SourcePaths \ {call.p} :
             OutPath(q, call.fmt, call.out_folder) # call.saves[k].path
        /\ call.saves[k].path \notin SourcePaths

\* in/a.png is written to the file that in/a.jpg is, and the file it is
\* written to is the input file in/a.jpg
C24_Witness ==
    /\ call.pc = "returned"
    /\ call.p = [dir |-> "in", stem |-> "a", suffix |-> "png"]
    /\ call.fmt = "jpg"
    /\ call.out_folder = ""
    /\ call.saves[1].path = [dir |-> "in", stem |-> "a", suffix |-> "jpg"]
    /\ call.saves[1].path
         = OutPath([dir |-> "in", stem |-> "a", suffix |-> "jpg"], call.fmt, call.out_folder)
    /\ call.saves[1].path \in SourcePaths
====
